---- MODULE Spec2Model ----
(***************************************************************************)
(* LWS workflow orchestrator: the per-order pipeline (process_one_order),  *)
(* the failure path (fail_order), the state store (upsert_order_state,     *)
(* mark_run_order) and the scheduled run (run_once) with its three         *)
(* reconciliation phases, the pipeline loop and the operator's dashboard   *)
(* actions.                                                                *)
(*                                                                         *)
(* Remote reads (item status, lines, requirements, polled status) are      *)
(* inputs drawn where the code reads them; remote artifacts that the       *)
(* existence lookups read back (jobs, purchase orders, sales orders,       *)
(* shipping requests) are kept in `made`.                                  *)
(***************************************************************************)
EXTENDS Integers, Sequences, FiniteSets, TLC

VARIABLES
    state,      \* lws_order_state: one row per order (status "ABSENT": no row)
    runOrders,  \* run_orders rows of the current run_id, per order
    made,       \* remote artifacts per kind, as sets of identifiers
    pc,         \* position inside process_one_order ("idle": not running)
    cur,        \* locals of the running process_one_order
    ev,         \* what the last step did (failure path: fields and notification)
    lastFail,   \* per order: fields of its latest failure-path invocation
    run,        \* locals of run_once (phase, work lists, counters)
    snap,       \* orders whose upstream line snapshot is stored
    crashed,    \* orders for which a call of process_one_order died half-way
    now         \* clock read by upsert_order_state for hold_since_ts

vars == <<state, runOrders, made, pc, cur, ev, lastFail, run, snap, crashed, now>>

----------------------------------------------------------------------------
(* Bounds of the model *)

NumOrders == 2      \* sales orders known upstream
MaxReqs == 2        \* requirement rows a job can have
MaxMade == 2        \* artifacts of one kind under one parent before creates stop
MaxRuns == 2        \* scheduled runs in one behaviour
MaxQty == 2         \* line quantities read in Phase C
MaxNow == 1         \* readings of the clock
ManualLimit == 1    \* the limit (25) of get_manual_queue_orders, scaled to the model
MaxCode == 3        \* pieces of an item code
MAX_ORDERS_PER_RUN == 1     \* config.py MAX_ORDERS_PER_RUN, scaled to the model

Orders == 1..NumOrders

None == <<>>        \* Python None / SQL NULL (identifiers and texts are tuples)

Kinds == {"JOB_P4", "PO_P4", "SO_P2", "SHIPREQ_P2", "JOB_P2"}

----------------------------------------------------------------------------
(* Texts.  A text is a tuple of lower-cased fragments; `in` is fragment     *)
(* containment.                                                            *)

Includes(tok, phrase) ==
    \/ tok = phrase
    \/ phrase = "hold" /\ tok \in {"on hold", "credit hold"}

Contains(text, phrase) == \E i \in DOMAIN text : Includes(text[i], phrase)

\* Reasons the remote system gives when it rejects a write.
RejectionReasons == {<<"sales order is", "on hold">>, <<"item is inactive">>, <<"credit hold">>}

MsgItemsWait == <<"items created in wait. stop until csr approves (app).">>
MsgBaseNotApp == <<"base item not app">>
MsgPtNotApp == <<"pt item not app. stop until app.">>
MsgSpNotApp == <<"sp item not app. stop until app.">>
MsgFgNotApp == <<"starpak fg item not app. stop before starpak so creation.">>
MsgSoNotAuthorised == <<"plant2 so is not authorised">>
MsgNoLines == <<"no pv_sorderline found">>
MsgNoHeader == <<"no pv_sorder header found">>
MsgNoReqs == <<"no eligible pv_req rows found">>
MsgFilmMismatch == <<"printed_film_mismatch">>
MsgReadFault == <<"database read failed">>
MsgNoShipLines == <<"no plant2 so lines found", "cannot create shipreq">>

----------------------------------------------------------------------------
(* State store *)

\* The last-API-error columns: entity, status, messages, error message.
NoApi == <<None, None, None, None>>

NoRow ==
    [status |-> "ABSENT", last_step |-> "", job_p4 |-> None, po_p4 |-> None,
     so_p2 |-> None, shipreq_p2 |-> None, job_p2 |-> None, err |-> None, api |-> NoApi,
     sig |-> None, film_sig |-> None, hold_since |-> None, reminder_ts |-> None,
     escalated_ts |-> None]

NoRec == [status |-> "NONE", last_step |-> ""]

NoArgs ==
    [job_p4 |-> None, po_p4 |-> None, so_p2 |-> None, shipreq_p2 |-> None,
     job_p2 |-> None, err |-> None, api |-> NoApi]

\* Fault: the stored value is dropped.
Coalesce_new_only(x, y) == x

Coalesce(x, y) == IF x # None THEN x ELSE y

\* db.py upsert_order_state: the hold-aging UPDATE, then INSERT .. ON CONFLICT.
upsert_order_state(S, o, status, last_step, a) ==
    LET old == S[o]
        hs == IF old.status = "ABSENT" THEN None
              ELSE IF status = "HOLD" THEN Coalesce(old.hold_since, <<now>>)
              ELSE None
    IN [S EXCEPT ![o] =
            [status |-> status,
             last_step |-> last_step,
             job_p4 |-> Coalesce(a.job_p4, old.job_p4),
             po_p4 |-> Coalesce(a.po_p4, old.po_p4),
             so_p2 |-> Coalesce(a.so_p2, old.so_p2),
             shipreq_p2 |-> Coalesce(a.shipreq_p2, old.shipreq_p2),
             job_p2 |-> Coalesce(a.job_p2, old.job_p2),
             err |-> a.err,
             api |-> a.api,
             sig |-> old.sig,
             film_sig |-> old.film_sig,
             hold_since |-> hs,
             reminder_ts |-> IF status = "HOLD" THEN old.reminder_ts ELSE None,
             escalated_ts |-> IF status = "HOLD" THEN old.escalated_ts ELSE None]]

mark_run_order(R, o, status, last_step) ==
    [R EXCEPT ![o] = [status |-> status, last_step |-> last_step]]

\* The status column; "ABSENT" stands for the None of a missing row.
get_order_status(S, o) == S[o].status

\* Fault: the COMPLETE check never fires.
is_order_complete_never(S, o) == FALSE

is_order_complete(S, o) == get_order_status(S, o) = "COMPLETE"

\* Fault: a check that sees no order as removed.
is_order_removed_never(S, o) == FALSE

is_order_removed(S, o) == get_order_status(S, o) = "REMOVED"

\* Fault: the UPDATE without its WHERE clause.
mark_failure_email_sent_every_row(S, o, sig) ==
    [p \in DOMAIN S |-> IF S[p].status = "ABSENT" THEN S[p] ELSE [S[p] EXCEPT !.sig = sig]]

\* db.py mark_failure_email_sent: an UPDATE of the order's row.
mark_failure_email_sent(S, o, sig) ==
    IF S[o].status = "ABSENT" THEN S ELSE [S EXCEPT ![o].sig = sig]

----------------------------------------------------------------------------
(* Remote artifacts.  An identifier is its parent's identifier followed by *)
(* a serial number; the job of site A hangs under the order number.        *)

Children(kind, parent) ==
    {id \in made[kind] : Len(id) = Len(parent) + 1 /\ SubSeq(id, 1, Len(parent)) = parent}

\* The existence lookups: newest matching row, or None.
FindExisting(kind, parent) ==
    LET c == Children(kind, parent)
    IN IF c = {} THEN None
       ELSE CHOOSE id \in c : \A other \in c : other[Len(other)] <= id[Len(id)]

find_existing_job_p4(o) == FindExisting("JOB_P4", <<o>>)
find_existing_po_by_job(job) == FindExisting("PO_P4", job)
\* Fault: a lookup that sees no sales order.
find_existing_so_by_po_blind(po) == None

find_existing_so_by_po(po) == FindExisting("SO_P2", po)
find_existing_shipreq_for_so_p2(so) == FindExisting("SHIPREQ_P2", so)
find_existing_job_p2(so) == FindExisting("JOB_P2", so)

NewId(kind, parent) == Append(parent, Cardinality(Children(kind, parent)) + 1)

CanCreate(kind, parent) == Cardinality(Children(kind, parent)) < MaxMade

Created(kind, parent) == [made EXCEPT ![kind] = @ \cup {NewId(kind, parent)}]

----------------------------------------------------------------------------
(* Exceptions and the failure path *)

\* exceptions.py WorkflowApiError: the text and the API details it carries.
WorkflowApiError(text, api_entity, api_status, api_error_message, api_messages) ==
    [text |-> text, api_entity |-> api_entity, api_status |-> api_status,
     api_error_message |-> api_error_message, api_messages |-> api_messages]

\* Any other exception: getattr(err, ..., None) gives None for the details.
Exc(text) == WorkflowApiError(text, None, None, None, None)

FailureMessage(err) ==
    IF err.api_error_message # None THEN err.api_error_message ELSE err.text

\* str(x or ""): None and "" both give "".
StrOrEmpty(x) == IF x = None THEN <<>> ELSE x

\* Fault: a signature that leaves the step out.
FailSig_without_step(step, msg, api_entity, api_status, api_err) ==
    <<StrOrEmpty(msg), StrOrEmpty(api_entity), StrOrEmpty(api_status), StrOrEmpty(api_err)>>

\* The signature is a digest of the parts; the digest is taken as injective.
FailSig(step, msg, api_entity, api_status, api_err) ==
    <<StrOrEmpty(step), StrOrEmpty(msg), StrOrEmpty(api_entity),
      StrOrEmpty(api_status), StrOrEmpty(api_err)>>

\* app.py fail_order, as called from process_one_order (api_entity, api_status
\* and api_messages are left at their default None).
fail_order(S, R, o, step, err) ==
    LET msg == FailureMessage(err)
        S1 == upsert_order_state(S, o, "FAILED", step,
                  [NoArgs EXCEPT !.err = msg,
                                 !.api = <<None, None, <<"[]">>, err.api_error_message>>])
        R1 == mark_run_order(R, o, "FAILED", step)
        fail_sig == FailSig(<<step>>, msg, None, None, err.api_error_message)
        last_sig == S1[o].sig
        duplicate == last_sig # None /\ last_sig = fail_sig
    IN [S |-> IF duplicate THEN S1 ELSE mark_failure_email_sent(S1, o, fail_sig),
        R |-> R1,
        mailed |-> ~duplicate,
        fields |-> <<step, msg, None, None, err.api_error_message>>]

----------------------------------------------------------------------------
(* Item codes: sequences of pieces *)

_pt_16p4_itemcode(base_itemcode) == <<"16P4-">> \o base_itemcode

_sp_1600_itemcode(base_itemcode) == <<"1600-">> \o base_itemcode

\* str.upper() on one piece.
upper(p) == IF p = "16p4-" THEN "16P4-" ELSE p

\* str.strip(): white space is dropped at both ends.
RECURSIVE lstrip(_)
lstrip(s) == IF s # <<>> /\ Head(s) = " " THEN lstrip(Tail(s)) ELSE s

RECURSIVE rstrip(_)
rstrip(s) ==
    IF s # <<>> /\ s[Len(s)] = " " THEN rstrip(SubSeq(s, 1, Len(s) - 1)) ELSE s

strip(s) == rstrip(lstrip(s))

\* s.upper().startswith(prefix)
startswith(s, prefix) == s # <<>> /\ upper(Head(s)) = prefix

\* One round of the loop of _core_itemcode.
CutPrefix(s, prefix) == IF startswith(s, prefix) THEN Tail(s) ELSE s

_core_itemcode(itemcode) == CutPrefix(CutPrefix(strip(itemcode), "16P4-"), "1600-")

----------------------------------------------------------------------------
(* process_one_order *)

InitCur(o) ==
    [order |-> o, step |-> "", job_p4 |-> None, po |-> None, so |-> None,
     shipreq |-> None, job_p2 |-> None, fg_status |-> None, so_status |-> None,
     polls |-> 0, reqs |-> 0, film |-> None,
     found |-> FALSE, archived |-> FALSE,
     last_po |-> None, last_so |-> None, last_job_p2 |-> None,
     exit |-> "", writes |-> {}]

IdleCur == InitCur(0)

NoEv ==
    [kind |-> "none", order |-> 0, at |-> "", cause |-> "", reason |-> None,
     fields |-> None, prev |-> None, mailed |-> FALSE]

Ev(kind, c, cause, reason) ==
    [NoEv EXCEPT !.kind = kind, !.order = c.order, !.at = c.step,
                 !.cause = cause, !.reason = reason]

Ids(c) ==
    [NoArgs EXCEPT !.job_p4 = c.job_p4, !.po_p4 = c.po, !.so_p2 = c.so]

\* Continue inside process_one_order at position `next`.
Go(S, R, c, next) ==
    /\ state' = S
    /\ runOrders' = R
    /\ pc' = next
    /\ cur' = c
    /\ ev' = Ev("step", c, "", None)
    /\ UNCHANGED <<lastFail, crashed, run, now>>

\* `return` from process_one_order.
Return(S, R, c, kind) ==
    /\ state' = S
    /\ runOrders' = R
    /\ pc' = "done"
    /\ cur' = [c EXCEPT !.exit = "return"]
    /\ ev' = Ev(kind, c, "", None)
    /\ UNCHANGED <<lastFail, crashed, run, now>>

\* Fault: WorkflowHold raised with the HOLD row not written.
Hold_unpersisted(S, R, c, hold_step, msg, a, cause, reason) ==
    /\ state' = S
    /\ runOrders' = R
    /\ pc' = "done"
    /\ cur' = [c EXCEPT !.exit = "hold"]
    /\ ev' = Ev("hold", c, cause, reason)
    /\ UNCHANGED <<lastFail, crashed, run, now>>

\* upsert HOLD, mark HOLD, raise WorkflowHold: the handler at 1366 re-raises.
Hold(S, R, c, hold_step, msg, a, cause, reason) ==
    /\ state' = upsert_order_state(S, c.order, "HOLD", hold_step, [a EXCEPT !.err = msg])
    /\ runOrders' = mark_run_order(R, c.order, "HOLD", hold_step)
    /\ pc' = "done"
    /\ cur' = [c EXCEPT !.exit = "hold"]
    /\ ev' = Ev("hold", c, cause, reason)
    /\ UNCHANGED <<lastFail, crashed, run, now>>

\* Any other exception: the handler at 1371 calls fail_order and re-raises.
Raise(S, R, c, err, cause, reason) ==
    LET f == fail_order(S, R, c.order, c.step, err)
    IN /\ state' = f.S
       /\ runOrders' = f.R
       /\ pc' = "done"
       /\ cur' = [c EXCEPT !.exit = "exc"]
       /\ ev' = [Ev("fail", c, cause, reason) EXCEPT
                    !.fields = f.fields, !.prev = lastFail[c.order], !.mailed = f.mailed]
       /\ lastFail' = [lastFail EXCEPT ![c.order] = f.fields]
       /\ UNCHANGED <<crashed, run, now>>

\* Fault: the call starts at the purchase order, with no job of site A.
process_one_order_from_po(o) ==
    /\ Go(upsert_order_state(state, o, "IN_PROGRESS", "ELIGIBLE", NoArgs),
          mark_run_order(runOrders, o, "IN_PROGRESS", "ELIGIBLE"),
          [InitCur(o) EXCEPT !.reqs = 1], "PO_P4")
    /\ UNCHANGED <<made, snap>>

\* Lines 901-909: the COMPLETE check, then the first writes.  `archived`
\* notes a call for an order that has a job of site A and no row: rows are
\* deleted only by archive_old_complete_orders.  `prev` of the event is the
\* row as the call found it.
process_one_order(o) ==
    IF is_order_complete(state, o)
    THEN /\ Return(state, mark_run_order(runOrders, o, "SKIPPED", "ALREADY_COMPLETE"),
                   InitCur(o), "skip")
         /\ UNCHANGED <<made, snap>>
    ELSE LET R1 == mark_run_order(runOrders, o, "IN_PROGRESS", "START")
             S1 == upsert_order_state(state, o, "IN_PROGRESS", "ELIGIBLE", NoArgs)
             R2 == mark_run_order(R1, o, "IN_PROGRESS", "ELIGIBLE")
             archived == get_order_status(state, o) = "ABSENT" /\ find_existing_job_p4(o) # None
             c == [InitCur(o) EXCEPT !.archived = archived]
         IN /\ state' = S1
            /\ runOrders' = R2
            /\ pc' = "ITEM_GATE_PRE_JOB"
            /\ cur' = c
            /\ ev' = [Ev("step", c, "", None) EXCEPT !.prev = state[o]]
            /\ UNCHANGED <<made, snap, lastFail, crashed, run, now>>

\* `if not job_p4:`, `if po_existing:`, `if so_existing:`, `if existing:`,
\* `if job2_existing:` -- an identifier the lookup returned is used.
\* Fault: the result of the lookup is ignored.
UseExisting_never(existing) == FALSE

UseExisting(existing) == existing # None

\* What the item gate reads: the status of the base item, whether the two
\* derived items exist, and the status of the 16P4 item (None, hence not APP,
\* when the item is missing).
ItemReadings ==
    {<<b, p, s, a>> : b \in {"base app", "base not app"}, p \in {"pt exists", "pt missing"},
                      s \in {"sp exists", "sp missing"}, a \in {"pt app", "pt not app"}}
        \ {rd \in {"base app", "base not app"} \X {"pt missing"}
                  \X {"sp exists", "sp missing"} \X {"pt app"} : TRUE}

DerivedItemMissing(rd) == rd[2] = "pt missing" \/ rd[3] = "sp missing"

\* Fault: the base item is looked at before the derived items.
GateDecision_base_first(rd) ==
    IF rd[1] = "base not app" THEN "base_wait"
    ELSE IF DerivedItemMissing(rd) THEN "items_missing"
    ELSE IF rd[4] = "pt not app" THEN "pt_wait"
    ELSE "ok"

\* The chain of conditions at lines 692, 749 and 761.
GateDecision(rd) ==
    IF DerivedItemMissing(rd) THEN "items_missing"
    ELSE IF rd[1] = "base not app" THEN "base_wait"
    ELSE IF rd[4] = "pt not app" THEN "pt_wait"
    ELSE "ok"

\* The items create_pt_and_sp_items_from_so_itemcode posts with XLinkAPIItem
\* when it returns: the 16P4 item, then the 1600 item, each a copy of the
\* template with ItemStatusCode WAIT.  The function receives the core of
\* the item code only; it does not read which of the two items exist.
create_pt_and_sp_items_from_so_itemcode(rd) == <<"pt", "sp">>

\* ensure_items_ready_or_create_wait with require_sp_app=False, then `next`.
\* The creation of the placeholder items succeeds or raises.
ensure_items_ready_or_create_wait(S, R, c, next) ==
    \E rd \in ItemReadings :
        LET g == GateDecision(rd)
            cw == [c EXCEPT !.writes = @ \cup {"item_create"}]
        IN CASE g = "items_missing" ->
                    \/ /\ state' = upsert_order_state(S, c.order, "HOLD", "ITEM_CREATE_WAIT",
                                                       [NoArgs EXCEPT !.err = MsgItemsWait])
                       /\ runOrders' = mark_run_order(R, c.order, "HOLD", "ITEM_CREATE_WAIT")
                       /\ pc' = "done"
                       /\ cur' = [cw EXCEPT !.exit = "hold"]
                       /\ ev' = [Ev("hold", cw, "gate", rd) EXCEPT
                                    !.fields = create_pt_and_sp_items_from_so_itemcode(rd)]
                       /\ UNCHANGED <<lastFail, crashed, run, now>>
                    \/ Raise(S, R, cw, Exc(<<"item create failed">>), "exception", None)
             [] g = "base_wait" ->
                    Hold(S, R, c, "BASE_ITEM_WAIT", MsgBaseNotApp, NoArgs, "gate", rd)
             [] g = "pt_wait" ->
                    Hold(S, R, c, "ITEM_WAIT_GATE_PT", MsgPtNotApp, NoArgs, "gate", rd)
             [] OTHER -> Go(S, R, c, next)

\* The drift check of the upstream lines against the stored snapshot: without
\* a snapshot the lines are stored; with one they are the same or have drifted
\* (WorkflowHold).
DriftMsg == <<"so4 qty changed">>

detect_so4_qty_changes_or_hold(o) ==
    IF o \in snap THEN {"same", "drift"} ELSE {"stored"}

\* Lines 920-960: first write of the step, line read, drift check, header
\* read, item gate.
ItemGatePreJob ==
    /\ pc = "ITEM_GATE_PRE_JOB"
    /\ LET c == [cur EXCEPT !.step = "ITEM_GATE_PRE_JOB"]
           o == cur.order
           S1 == upsert_order_state(state, o, "IN_PROGRESS", c.step, NoArgs)
       IN \/ \E fault \in {MsgReadFault, <<"list index out of range">>, MsgNoHeader} :
                /\ Raise(S1, runOrders, c, Exc(fault), "exception", None)
                /\ UNCHANGED snap
          \/ /\ "drift" \in detect_so4_qty_changes_or_hold(o)
             /\ state' = upsert_order_state(S1, o, "HOLD", "SO4_QTY_CHANGED_WAIT_RECONFIRM",
                                             [NoArgs EXCEPT !.err = DriftMsg])
             /\ pc' = "done"
             /\ cur' = [c EXCEPT !.exit = "hold"]
             /\ ev' = Ev("hold", c, "gate", None)
             /\ UNCHANGED <<runOrders, lastFail, snap, crashed, run, now>>
          \/ /\ ensure_items_ready_or_create_wait(S1, runOrders, c, "JOB_P4")
             /\ snap' = snap \cup {o}
    /\ UNCHANGED made

\* Lines 965-990: lookup, else create; a found job is persisted at once.
JobP4 ==
    /\ pc = "JOB_P4"
    /\ UNCHANGED snap
    /\ LET c == [cur EXCEPT !.step = "JOB_P4"]
           existing == find_existing_job_p4(cur.order)
       IN IF UseExisting(existing)
          THEN LET c1 == [c EXCEPT !.job_p4 = existing, !.found = TRUE]
               IN /\ Go(upsert_order_state(state, c.order, "IN_PROGRESS", "JOB_P4", Ids(c1)),
                        mark_run_order(runOrders, c.order, "IN_PROGRESS", "JOB_P4"),
                        c1, "REQS_P4")
                  /\ UNCHANGED made
          ELSE \/ /\ CanCreate("JOB_P4", <<c.order>>)
                  /\ made' = Created("JOB_P4", <<c.order>>)
                  /\ Go(state, runOrders,
                        [c EXCEPT !.job_p4 = NewId("JOB_P4", <<c.order>>), !.found = FALSE,
                                  !.writes = @ \cup {"JOB_P4"}],
                        "JOB_P4_persist")
               \/ \E r \in RejectionReasons :
                      /\ Hold(state, runOrders, c, "JOB_P4_HOLD", r, NoArgs, "rejection", r)
                      /\ UNCHANGED made
               \/ /\ Raise(state, runOrders, c, Exc(<<"job_p4 did not produce a job code">>),
                           "exception", None)
                  /\ UNCHANGED made

JobP4Persist ==
    /\ pc = "JOB_P4_persist"
    /\ Go(upsert_order_state(state, cur.order, "IN_PROGRESS", "JOB_P4", Ids(cur)),
          mark_run_order(runOrders, cur.order, "IN_PROGRESS", "JOB_P4"),
          cur, "REQS_P4")
    /\ UNCHANGED <<made, snap>>

\* What apply_req_changes_to_po can do: nothing to apply, a delta pushed to
\* the existing purchase order and sales order (WorkflowHold), or an error.
apply_req_changes_to_po(S, o) ==
    IF S[o].po_p4 # None /\ S[o].so_p2 # None
    THEN {"unchanged", "applied", "error"}
    ELSE {"unchanged", "error"}

\* app.py 937: the base item of the order, the item code of its first line.
BaseItemCode(o) == <<"X">>

\* The printed-film item among the requirement rows of the job: none, the
\* item derived from the base item (also in lower case), or another one.
FilmItems ==
    {None, <<"16P4-", "X">>, <<"16p4-", "X">>, <<"16P4-", "X", "X">>, <<"16P4-", " ", "X">>}

\* str.upper() on an item code.
UpperSeq(s) == [i \in DOMAIN s |-> upper(s[i])]

\* printed_found: the stripped, upper-cased item if it starts with 16P4-.
PrintedFound(item) ==
    IF item # None /\ startswith(strip(item), "16P4-") THEN UpperSeq(strip(item)) ELSE None

\* f"16P4-{core}".upper()
ExpectedPrinted(base) == UpperSeq(_pt_16p4_itemcode(strip(_core_itemcode(base))))

\* Fault: an item that only begins with the expected code is accepted.
FilmMismatch_prefix_match(base, item) ==
    /\ PrintedFound(item) # None
    /\ LET e == ExpectedPrinted(base)
           f == PrintedFound(item)
       IN ~(Len(f) >= Len(e) /\ SubSeq(f, 1, Len(e)) = e)

\* invalid_printed is not empty.
FilmMismatch(base, item) ==
    PrintedFound(item) # None /\ PrintedFound(item) # ExpectedPrinted(base)

\* The digest of the mismatch (order, base item, expected and found items),
\* taken as injective.
FilmSig(o, base, item) == <<<<"so">>, base, ExpectedPrinted(base), PrintedFound(item)>>

\* validate_printed_film_base_or_fail on a mismatch: FAILED is written, the
\* mismatch email is sent and its signature stored unless the signature is
\* the stored one or no recipient is configured; then RuntimeError.
validate_printed_film_base_or_fail(S, R, o, item, recipients) ==
    LET S1 == upsert_order_state(S, o, "FAILED", "PHASE1_FILM_VALIDATION",
                                 [NoArgs EXCEPT !.err = MsgFilmMismatch \o PrintedFound(item)])
        R1 == mark_run_order(R, o, "FAILED", "PHASE1_FILM_VALIDATION")
        new_sig == FilmSig(o, BaseItemCode(o), item)
        existing_sig == S1[o].film_sig
        outcome == IF existing_sig = new_sig THEN "suppressed"
                   ELSE IF recipients THEN "sent" ELSE "no recipients"
    IN [S |-> IF outcome = "sent" THEN [S1 EXCEPT ![o].film_sig = new_sig] ELSE S1,
        R |-> R1,
        outcome |-> outcome,
        err |-> Exc(MsgFilmMismatch \o PrintedFound(item))]

\* Lines 995-1049: requirement rows, film validation, requirement changes.
ReqsP4 ==
    /\ pc = "REQS_P4"
    /\ UNCHANGED <<made, snap>>
    /\ LET c == [cur EXCEPT !.step = "REQS_P4"]
           o == cur.order
       IN \/ \E fault \in {MsgReadFault, MsgNoReqs} :
                Raise(state, runOrders, c, Exc(fault), "exception", None)
          \/ \E item \in FilmItems :
                IF FilmMismatch(BaseItemCode(o), item)
                THEN \E recipients \in BOOLEAN :
                        LET v == validate_printed_film_base_or_fail(state, runOrders, o,
                                                                    item, recipients)
                        IN Raise(v.S, v.R, [c EXCEPT !.film = <<v.outcome>>], v.err,
                                 "film", item)
                ELSE \E a \in apply_req_changes_to_po(state, o) :
                        CASE a = "applied" ->
                                Hold(state, runOrders, c, "P2_SO_QTY_UPDATED_WAIT_RECONFIRM",
                                     <<"requirement change applied">>, NoArgs, "gate", None)
                          [] a = "error" ->
                                Hold(state, runOrders, c, "PHASE2_REQ_APPLY_HOLD",
                                     <<"phase2 apply_req_changes_to_po error">> \o MsgReadFault,
                                     NoArgs, "exception", None)
                          [] OTHER ->
                                \E n \in 1..MaxReqs :
                                    /\ state' = state
                                    /\ runOrders' = runOrders
                                    /\ pc' = "ITEM_GATE"
                                    /\ cur' = [c EXCEPT !.reqs = n]
                                    /\ ev' = Ev("step", c, "film", item)
                                    /\ UNCHANGED <<lastFail, crashed, run, now>>

\* Lines 1056-1077: the second item gate, on the first requirement's item.
ItemGate ==
    /\ pc = "ITEM_GATE"
    /\ UNCHANGED <<made, snap>>
    /\ ensure_items_ready_or_create_wait(state, runOrders, [cur EXCEPT !.step = "ITEM_GATE"], "PO_P4")

\* Lines 1099-1148: head of the loop over the requirement rows, then the
\* purchase order: lookup by job, else create.
PoP4 ==
    /\ pc = "PO_P4"
    /\ UNCHANGED snap
    /\ LET c == [cur EXCEPT !.step = "PO_P4"]
           existing == find_existing_po_by_job(cur.job_p4)
       IN \/ /\ Raise(state, runOrders, cur, Exc(<<"req row missing itemcode">>),
                      "exception", None)
             /\ UNCHANGED made
          \/ /\ UseExisting(existing)
             /\ LET c1 == [c EXCEPT !.po = existing, !.last_po = existing, !.found = TRUE]
                IN Go(upsert_order_state(state, c.order, "IN_PROGRESS", "PO_P4",
                                         [Ids(c1) EXCEPT !.so_p2 = None]),
                      mark_run_order(runOrders, c.order, "IN_PROGRESS", "PO_P4"),
                      c1, "SO_P2")
             /\ UNCHANGED made
          \/ /\ ~UseExisting(existing)
             /\ \/ /\ CanCreate("PO_P4", c.job_p4)
                   /\ made' = Created("PO_P4", c.job_p4)
                   /\ Go(state, runOrders,
                         [c EXCEPT !.po = NewId("PO_P4", c.job_p4), !.found = FALSE,
                                   !.writes = @ \cup {"PO_P4"}],
                         "PO_P4_persist")
                \/ \E r \in RejectionReasons :
                       /\ Raise(state, runOrders, c, Exc(<<"po failed">> \o r), "rejection", r)
                       /\ UNCHANGED made

PoP4Persist ==
    /\ pc = "PO_P4_persist"
    /\ LET c1 == [cur EXCEPT !.last_po = cur.po]
       IN Go(upsert_order_state(state, cur.order, "IN_PROGRESS", "PO_P4",
                                [Ids(c1) EXCEPT !.so_p2 = None]),
             mark_run_order(runOrders, cur.order, "IN_PROGRESS", "PO_P4"),
             c1, "SO_P2")
    /\ UNCHANGED <<made, snap>>

\* _item_status of the finished-goods item: a status, or None for no row.
ItemStatuses == {None, <<"APP">>, <<"WAIT">>}

\* Fault: the gate lets every status through.
FgApproved_always(fg_status) == TRUE

\* Line 1159: str(fg_status or "").upper() == "APP"
FgApproved(fg_status) == fg_status = <<"APP">>

\* Lines 1153-1186: finished-goods item gate, then the sales order of site B:
\* lookup by purchase order, else create.
SoP2 ==
    /\ pc = "SO_P2"
    /\ UNCHANGED snap
    /\ \E fg_status \in ItemStatuses :
        LET c == [cur EXCEPT !.step = "SO_P2", !.fg_status = fg_status]
            existing == find_existing_so_by_po(cur.po)
        IN IF ~FgApproved(fg_status)
           THEN /\ Hold(state, runOrders, c, "ITEM_WAIT_GATE_SP", MsgFgNotApp, NoArgs, "gate", None)
                /\ UNCHANGED made
           ELSE \/ /\ UseExisting(existing)
                   /\ Go(state, runOrders, [c EXCEPT !.so = existing, !.found = TRUE], "SO_P2_auth")
                   /\ UNCHANGED made
                \/ /\ ~UseExisting(existing)
                   /\ \/ /\ CanCreate("SO_P2", c.po)
                         /\ made' = Created("SO_P2", c.po)
                         /\ LET c1 == [c EXCEPT !.so = NewId("SO_P2", c.po), !.found = FALSE,
                                                !.writes = @ \cup {"SO_P2"}]
                            IN \/ Go(state, runOrders, c1, "SO_P2_auth")
                               \/ Raise(state, runOrders, [c1 EXCEPT !.so = None],
                                        Exc(<<"so succeeded but payload shape unexpected">>),
                                        "exception", None)
                      \/ \E r \in RejectionReasons, error_message \in {None, <<"envelope error">>} :
                             /\ Raise(state, runOrders, c,
                                      WorkflowApiError(<<"so api error">> \o r,
                                          <<"XLinkAPISOrder">>, <<"0">>, error_message, r),
                                      "rejection", r)
                             /\ UNCHANGED made

\* Line 1228: the sales order of site B is already complete.
\* Fault: status 9 is treated like status 0.
IsAlreadyComplete_never(so_status) == FALSE

IsAlreadyComplete(so_status) == so_status = <<9>>

\* get_so_status_p2: a status, or None when the row or its status is missing.
PolledStatus == {None, <<0>>, <<1>>, <<2>>, <<9>>}

\* Line 1191: range(10).
PollReads == 10

\* Fault: the loop goes on after a read that returned a status.
PollEnds_on_last_read_only(so_status, polls) == polls >= PollReads

\* Lines 1191-1195: the loop ends at a status or after the last read.
PollEnds(so_status, polls) == so_status # None \/ polls >= PollReads

\* Line 1199: the purchase order is confirmed for status 0 and 9.
ConfirmsPo(so_status) == so_status \in {<<0>>, <<9>>}

\* Fault: no status counts as held.
IsHeld_never(so_status) == FALSE

\* Line 1215: held or credit-held.
IsHeld(so_status) == so_status \in {<<1>>, <<2>>}

\* Lines 1188-1190: forced authorize of the sales order at hand, found or
\* created.
SoP2Auth ==
    /\ pc = "SO_P2_auth"
    /\ UNCHANGED <<made, snap>>
    /\ Go(state, runOrders,
          [cur EXCEPT !.writes = @ \cup {"authorize"}, !.so_status = None, !.polls = 0],
          "SO_P2_poll")

\* Lines 1199-1248: purchase-order confirm, then HOLD, COMPLETE or continue.
SoP2Status(so_status) ==
    LET confirm == IF ConfirmsPo(so_status) THEN {"po_confirm"} ELSE {}
        c == [cur EXCEPT !.writes = @ \cup confirm, !.last_so = cur.so,
                         !.so_status = so_status, !.polls = 0]
    IN CASE IsHeld(so_status) ->
              Hold(state, runOrders, c, "SO_P2_STATUS_HOLD", MsgSoNotAuthorised,
                   NoArgs, "gate", None)
         [] IsAlreadyComplete(so_status) ->
              Return(upsert_order_state(state, c.order, "COMPLETE", "SO_P2_ALREADY_COMPLETE",
                                        [NoArgs EXCEPT !.so_p2 = c.so]),
                     mark_run_order(runOrders, c.order, "COMPLETE", "SO_P2_ALREADY_COMPLETE"),
                     c, "so_complete")
         [] OTHER ->
              Go(upsert_order_state(state, c.order, "IN_PROGRESS", "SO_P2", Ids(c)),
                 mark_run_order(runOrders, c.order, "IN_PROGRESS", "SO_P2"),
                 c, "SHIPREQ_P2")

\* Lines 1191-1248: one read of the status poll; the read that ends the loop
\* is followed by the rest of the step.  `polls` counts the reads of the
\* loop while it runs.
SoP2Poll ==
    /\ pc = "SO_P2_poll"
    /\ UNCHANGED <<made, snap>>
    /\ \E so_status \in PolledStatus :
          IF PollEnds(so_status, cur.polls + 1)
          THEN SoP2Status(so_status)
          ELSE Go(state, runOrders,
                  [cur EXCEPT !.so_status = so_status, !.polls = @ + 1], "SO_P2_poll")

\* What create_shipreq_for_so_p2 raises: the lines of the sales order are not
\* visible, a line lacks its item code, or the API answered with errors.
ShipreqErrors ==
    {MsgNoShipLines, <<"line missing itemcode">>} \cup {<<"errors:">> \o r : r \in RejectionReasons}

\* Fault: no error counts as lines-not-visible.
is_wait_lines_never(msg) == FALSE

\* Line 1283.
is_wait_lines(msg) ==
    Contains(msg, "no plant2 so lines found") \/ Contains(msg, "cannot create shipreq")

\* Lines 1253-1295 with create_shipreq_for_so_p2: first write of the step,
\* lookup by sales order, else line check and create.
ShipreqP2 ==
    /\ pc = "SHIPREQ_P2"
    /\ UNCHANGED snap
    /\ LET c == [cur EXCEPT !.step = "SHIPREQ_P2"]
           o == cur.order
           S1 == upsert_order_state(state, o, "IN_PROGRESS", "SHIPREQ_P2", Ids(c))
           R1 == mark_run_order(runOrders, o, "IN_PROGRESS", "SHIPREQ_P2")
           existing == find_existing_shipreq_for_so_p2(cur.so)
       IN \/ /\ UseExisting(existing)
             /\ Go(upsert_order_state(S1, o, "IN_PROGRESS", "SHIPREQ_P2",
                                      [NoArgs EXCEPT !.so_p2 = c.so, !.shipreq_p2 = existing]),
                   R1, [c EXCEPT !.shipreq = existing, !.found = TRUE], "JOB_P2")
             /\ UNCHANGED made
          \/ /\ ~UseExisting(existing)
             /\ \/ \E e \in ShipreqErrors :
                       /\ UNCHANGED made
                       /\ IF is_wait_lines(e)
                          THEN Hold(S1, R1, c, "SHIPREQ_P2_WAIT_LINES", e,
                                    [NoArgs EXCEPT !.so_p2 = c.so], "gate", e)
                          ELSE IF e[1] = "errors:"
                          THEN Raise(S1, R1, c, Exc(e), "rejection", Tail(e))
                          ELSE Raise(S1, R1, c, Exc(e), "exception", None)
                \/ /\ CanCreate("SHIPREQ_P2", c.so)
                   /\ made' = Created("SHIPREQ_P2", c.so)
                   /\ LET c1 == [c EXCEPT !.found = FALSE, !.writes = @ \cup {"SHIPREQ_P2"}]
                      IN \/ Go(S1, R1, [c1 EXCEPT !.shipreq = NewId("SHIPREQ_P2", c.so)],
                               "SHIPREQ_P2_persist")
                         \/ Go(S1, R1, c1, "JOB_P2")

ShipreqP2Persist ==
    /\ pc = "SHIPREQ_P2_persist"
    /\ Go(upsert_order_state(state, cur.order, "IN_PROGRESS", "SHIPREQ_P2",
                             [NoArgs EXCEPT !.so_p2 = cur.so, !.shipreq_p2 = cur.shipreq]),
          runOrders, cur, "JOB_P2")
    /\ UNCHANGED <<made, snap>>

\* create_job_p2: the exception an answer with Errors turns into.
JobP2Error(r) ==
    IF Contains(r, "hold") THEN r ELSE <<"job_p2 did not produce a job code">> \o r

is_hold_reason(msg) ==
    \/ Contains(msg, "on hold")
    \/ Contains(msg, "job_p2 did not produce a job code")
    \/ Contains(msg, "valid estimate cannot be determined")
    \/ Contains(msg, "job code missing")

\* After the body of the loop: next requirement row, or the final step.
NextReq(c) == IF c.reqs > 1 THEN "PO_P4" ELSE "COMPLETE"

JobP2Ids(c) == [Ids(c) EXCEPT !.job_p2 = c.job_p2]

\* Lines 1300-1343: the job of site B: lookup by sales order, else create.
JobP2 ==
    /\ pc = "JOB_P2"
    /\ UNCHANGED snap
    /\ LET c == [cur EXCEPT !.step = "JOB_P2"]
           existing == find_existing_job_p2(cur.so)
       IN \/ /\ UseExisting(existing)
             /\ LET c1 == [c EXCEPT !.job_p2 = existing, !.last_job_p2 = existing,
                                    !.found = TRUE, !.reqs = @ - 1]
                IN Go(upsert_order_state(state, c.order, "IN_PROGRESS", "JOB_P2", JobP2Ids(c1)),
                      mark_run_order(runOrders, c.order, "IN_PROGRESS", "JOB_P2"),
                      c1, NextReq(c))
             /\ UNCHANGED made
          \/ /\ ~UseExisting(existing)
             /\ \/ /\ CanCreate("JOB_P2", c.so)
                   /\ made' = Created("JOB_P2", c.so)
                   /\ Go(state, runOrders,
                         [c EXCEPT !.job_p2 = NewId("JOB_P2", c.so), !.found = FALSE,
                                   !.writes = @ \cup {"JOB_P2"}],
                         "JOB_P2_persist")
                \/ \E r \in RejectionReasons :
                       /\ UNCHANGED made
                       /\ IF is_hold_reason(JobP2Error(r))
                          THEN Hold(state, runOrders, c, "JOB_P2_SO_ON_HOLD", JobP2Error(r),
                                    NoArgs, "rejection", r)
                          ELSE Raise(state, runOrders, c, Exc(JobP2Error(r)), "rejection", r)

JobP2Persist ==
    /\ pc = "JOB_P2_persist"
    /\ LET c1 == [cur EXCEPT !.last_job_p2 = cur.job_p2, !.reqs = @ - 1]
       IN Go(upsert_order_state(state, cur.order, "IN_PROGRESS", "JOB_P2", JobP2Ids(c1)),
             mark_run_order(runOrders, cur.order, "IN_PROGRESS", "JOB_P2"),
             c1, NextReq(cur))
    /\ UNCHANGED <<made, snap>>

\* Lines 1348-1359.
Complete ==
    /\ pc = "COMPLETE"
    /\ LET c == [cur EXCEPT !.step = "COMPLETE"]
       IN Return(upsert_order_state(state, c.order, "COMPLETE", "COMPLETE",
                     [NoArgs EXCEPT !.job_p4 = c.job_p4, !.po_p4 = c.last_po,
                                    !.so_p2 = c.last_so, !.job_p2 = c.last_job_p2]),
                 mark_run_order(runOrders, c.order, "COMPLETE", "COMPLETE"),
                 c, "complete")
    /\ UNCHANGED <<made, snap>>

\* The process dies after a remote create answered and before the state
\* write that follows it.
AfterCreate == {"JOB_P4_persist", "PO_P4_persist", "SO_P2_auth", "SHIPREQ_P2_persist", "JOB_P2_persist"}

Crash ==
    /\ pc \in AfterCreate
    /\ ~cur.found
    /\ pc' = "done"
    /\ cur' = [cur EXCEPT !.exit = "crash"]
    /\ ev' = Ev("crash", cur, "", None)
    /\ crashed' = crashed \cup {cur.order}
    /\ UNCHANGED <<state, runOrders, made, lastFail, snap, run, now>>

\* The steps of process_one_order after its entry.
Step ==
    \/ ItemGatePreJob
    \/ JobP4
    \/ JobP4Persist
    \/ ReqsP4
    \/ ItemGate
    \/ PoP4
    \/ PoP4Persist
    \/ SoP2
    \/ SoP2Auth
    \/ SoP2Poll
    \/ ShipreqP2
    \/ ShipreqP2Persist
    \/ JobP2
    \/ JobP2Persist
    \/ Complete

----------------------------------------------------------------------------
(* The pipeline executor on its own: process_one_order called for one      *)
(* order (any of them), any number of times, one call after the other.     *)

InitStore ==
    /\ state = [o \in Orders |-> NoRow]
    /\ runOrders = [o \in Orders |-> NoRec]
    /\ made = [k \in Kinds |-> {}]
    /\ pc = "idle"
    /\ cur = IdleCur
    /\ ev = NoEv
    /\ lastFail = [o \in Orders |-> None]
    /\ snap = {}
    /\ crashed = {}
    /\ now = 0

InitExec == InitStore /\ \E o \in Orders : run = [phase |-> "direct", order |-> o]

Call(o) ==
    /\ pc = "idle"
    /\ run.order = o
    /\ process_one_order(o)

\* The caller has the outcome; a new run_id starts with no run_orders rows.
CallerReturn ==
    /\ pc = "done"
    /\ pc' = "idle"
    /\ cur' = IdleCur
    /\ ev' = NoEv
    /\ UNCHANGED <<state, runOrders, made, lastFail, run, snap, crashed, now>>

NextExec ==
    \/ \E o \in Orders : Call(o)
    \/ Step
    \/ Crash
    \/ CallerReturn

SpecExec == InitExec /\ [][NextExec]_vars

----------------------------------------------------------------------------
(* run_once: the scheduled run *)

WaitReconfirmSteps ==
    {"P2_SO_QTY_UPDATED_WAIT_RECONFIRM", "P2_SO_QTY_UPDATED_MANUAL_COMPLETE_REQUIRED",
     "P2_QTY_DECREASE_WAIT_SP_JOB_RECONFIRM"}

\* last_step LIKE 'SO4_QTY_CHANGED_%' OR last_step LIKE 'P2_%'
Phase2Step(step) == step \in WaitReconfirmSteps \cup {"SO4_QTY_CHANGED_WAIT_RECONFIRM"}

get_orders_to_monitor(S) ==
    {o \in Orders : /\ S[o].status \in {"COMPLETE", "HOLD"}
                    /\ \/ Phase2Step(S[o].last_step)
                       \/ S[o].last_step \in {"COMPLETE", "SO4_CUSTREF_UPDATED_STARPAK"}}

get_phase2_held_orders(S) ==
    {o \in Orders : S[o].status = "HOLD" /\ Phase2Step(S[o].last_step)}

get_orders_in_step(S, step) == {o \in Orders : S[o].last_step = step}

get_manual_queue_orders(S) ==
    {o \in Orders : S[o].status = "NEW" /\ S[o].last_step = "ELIGIBLE"}

RECURSIVE SeqDesc(_)
\* ORDER BY sordernum DESC
SeqDesc(set) ==
    IF set = {} THEN <<>>
    ELSE LET m == CHOOSE x \in set : \A y \in set : y <= x
         IN <<m>> \o SeqDesc(set \ {m})

\* The orders of a set in any order (ORDER BY updated_ts).
Orderings(set) ==
    {q \in [1..Cardinality(set) -> set] : \A i, j \in DOMAIN q : i # j => q[i] # q[j]}

Take(q, n) == SubSeq(q, 1, IF Len(q) < n THEN Len(q) ELSE n)

Members(q) == {q[i] : i \in DOMAIN q}

\* The pending list without the orders of the third waiting step.
PendingRelease_two_steps(S) ==
    SeqDesc(get_orders_in_step(S, "P2_SO_QTY_UPDATED_WAIT_RECONFIRM"))
        \o SeqDesc(get_orders_in_step(S, "P2_SO_QTY_UPDATED_MANUAL_COMPLETE_REQUIRED"))

\* Lines 1689-1693.
PendingRelease(S) ==
    SeqDesc(get_orders_in_step(S, "P2_SO_QTY_UPDATED_WAIT_RECONFIRM"))
        \o SeqDesc(get_orders_in_step(S, "P2_SO_QTY_UPDATED_MANUAL_COMPLETE_REQUIRED"))
        \o SeqDesc(get_orders_in_step(S, "P2_QTY_DECREASE_WAIT_SP_JOB_RECONFIRM"))

\* Fault: the list without the two filters of the reconciliation holds.
PipelineOrders_unblocked(S, manual, upstream, held_sos) ==
    LET NotManual(o) == o \notin Members(manual)
        Keep(o) == ~is_order_complete(S, o) /\ ~is_order_removed(S, o)
        sorders == Take(manual \o SelectSeq(upstream, NotManual), MAX_ORDERS_PER_RUN)
    IN SelectSeq(sorders, Keep)

\* Lines 1740-1766: manual queue first, cut to the limit, then the filters.
PipelineOrders(S, manual, upstream, held_sos) ==
    LET NotManual(o) == o \notin Members(manual)
        Keep(o) == /\ o \notin get_phase2_held_orders(S)
                   /\ o \notin held_sos
                   /\ ~is_order_complete(S, o)
                   /\ ~is_order_removed(S, o)
        sorders == Take(manual \o SelectSeq(upstream, NotManual), MAX_ORDERS_PER_RUN)
    IN SelectSeq(sorders, Keep)

IdleRun ==
    [phase |-> "idle", todo |-> {}, queue |-> <<>>, held_sos |-> {},
     eligible |-> 0, processed |-> 0, failed |-> 0, held |-> 0,
     runs |-> 0, outcome |-> "", closed |-> None]

RunEv(kind, o) == [NoEv EXCEPT !.kind = kind, !.order = o]

\* An exception leaves run_once: the connections are closed, close_run is
\* not reached.
Escapes(o) ==
    /\ run' = [run EXCEPT !.phase = "idle", !.outcome = "raised", !.runs = @ + 1]
    /\ ev' = RunEv("escaped", o)
    /\ UNCHANGED <<state, runOrders, snap>>

\* Lines 1413-1488: archive of old COMPLETE rows, new run_id, counters, the
\* monitor list.
StartRun ==
    /\ run.phase = "idle"
    /\ pc = "idle"
    /\ run.runs < MaxRuns
    /\ \E old \in SUBSET {o \in Orders : state[o].status = "COMPLETE"} :
          LET S1 == [o \in Orders |-> IF o \in old THEN NoRow ELSE state[o]]
          IN /\ state' = S1
             /\ run' = [IdleRun EXCEPT !.phase = "A", !.runs = run.runs,
                                       !.todo = get_orders_to_monitor(S1)]
    /\ runOrders' = [o \in Orders |-> NoRec]
    /\ ev' = RunEv("start", 0)
    /\ UNCHANGED <<made, pc, cur, lastFail, snap, crashed, now>>

\* Fault: the handler of the drift hold overwrites every row.
PhaseAKeeps_never(row) == FALSE

\* Lines 1556-1577: the rows the handler of the drift hold leaves alone.
PhaseAKeeps(row) ==
    \/ row.status = "COMPLETE"
    \/ row.last_step \in {"P2_SO_QTY_UPDATED_WAIT_RECONFIRM",
                          "P2_SO_QTY_UPDATED_MANUAL_COMPLETE_REQUIRED"}

\* Lines 1492-1593, one order of the monitor list.  The drift check raises
\* WorkflowHold with the HOLD row written by the check itself or left to the
\* handler; `prev` of the event is the row the handler reads.
PhaseA(o) ==
    /\ run.phase = "A"
    /\ o \in run.todo
    /\ UNCHANGED <<made, pc, cur, lastFail, crashed, now>>
    /\ LET rest == [run EXCEPT !.todo = @ \ {o}]
       IN IF state[o].last_step \in WaitReconfirmSteps
          THEN /\ run' = rest
               /\ ev' = RunEv("phaseA_skip", o)
               /\ UNCHANGED <<state, runOrders, snap>>
          ELSE \/ Escapes(o)
               \/ /\ run' = rest
                  /\ ev' = RunEv("phaseA_nolines", o)
                  /\ UNCHANGED <<state, runOrders, snap>>
               \/ \E d \in detect_so4_qty_changes_or_hold(o) :
                    IF d # "drift"
                    THEN /\ run' = rest
                         /\ snap' = snap \cup {o}
                         /\ ev' = RunEv("phaseA_same", o)
                         /\ UNCHANGED <<state, runOrders>>
                    ELSE \E written \in BOOLEAN :
                         LET S1 == IF written
                                   THEN upsert_order_state(state, o, "HOLD",
                                            "SO4_QTY_CHANGED_WAIT_RECONFIRM",
                                            [NoArgs EXCEPT !.err = DriftMsg])
                                   ELSE state
                             held == [rest EXCEPT !.held_sos = @ \cup {o}, !.held = @ + 1]
                             job_p4 == find_existing_job_p4(o)
                         IN /\ UNCHANGED snap
                            /\ IF PhaseAKeeps(S1[o])
                               THEN /\ state' = S1
                                    /\ run' = held
                                    /\ ev' = [RunEv("phaseA_hold", o) EXCEPT !.prev = S1[o]]
                                    /\ UNCHANGED runOrders
                               ELSE \/ /\ state' = S1
                                       /\ run' = [held EXCEPT !.phase = "idle",
                                                     !.outcome = "raised", !.runs = @ + 1]
                                       /\ ev' = RunEv("escaped", o)
                                       /\ UNCHANGED runOrders
                                    \/ /\ state' = upsert_order_state(S1, o, "HOLD",
                                                       "SO4_QTY_CHANGED_WAIT_RECONFIRM",
                                                       [NoArgs EXCEPT !.err = DriftMsg,
                                                                      !.job_p4 = job_p4])
                                       /\ runOrders' = mark_run_order(runOrders, o, "HOLD",
                                                           "SO4_QTY_CHANGED_WAIT_RECONFIRM")
                                       /\ run' = held
                                       /\ ev' = [RunEv("phaseA_hold", o) EXCEPT !.prev = S1[o]]

\* Lines 1602-1611: the orders waiting for the reconfirm of site A.
PhaseAEnd ==
    /\ run.phase = "A"
    /\ run.todo = {}
    /\ run' = [run EXCEPT !.phase = "B",
                  !.todo = {o \in Orders : /\ state[o].status = "HOLD"
                                           /\ state[o].last_step = "SO4_QTY_CHANGED_WAIT_RECONFIRM"}]
    /\ ev' = RunEv("phaseB", 0)
    /\ UNCHANGED <<state, runOrders, made, pc, cur, lastFail, snap, crashed, now>>

\* Lines 1613-1677, one held order.
PhaseB(o) ==
    /\ run.phase = "B"
    /\ o \in run.todo
    /\ UNCHANGED <<runOrders, made, pc, cur, lastFail, snap, crashed, now>>
    /\ LET rest == [run EXCEPT !.todo = @ \ {o}]
           stored == state[o].job_p4
           job_code == IF stored # None THEN stored ELSE find_existing_job_p4(o)
           S1 == IF stored = None /\ job_code # None
                 THEN upsert_order_state(state, o, "HOLD", "SO4_QTY_CHANGED_WAIT_RECONFIRM",
                          [NoArgs EXCEPT !.job_p4 = job_code,
                                         !.err = <<"recovered missing job_p4_code">>])
                 ELSE state
       IN \/ /\ stored = None
             /\ run' = [run EXCEPT !.phase = "idle", !.outcome = "raised", !.runs = @ + 1]
             /\ ev' = RunEv("escaped", o)
             /\ UNCHANGED state
          \/ /\ job_code = None
             /\ run' = rest
             /\ ev' = RunEv("phaseB_nojob", o)
             /\ UNCHANGED state
          \/ /\ job_code # None
             /\ \/ /\ state' = S1
                   /\ run' = [rest EXCEPT !.failed = @ + 1]
                   /\ ev' = RunEv("phaseB_failed", o)
                \/ /\ state' = S1
                   /\ run' = rest
                   /\ ev' = RunEv("phaseB_noreqs", o)
                \/ \E r \in apply_req_changes_to_po(S1, o) :
                      CASE r = "unchanged" ->
                             /\ state' = S1
                             /\ run' = rest
                             /\ ev' = RunEv("phaseB_unchanged", o)
                        [] r = "error" ->
                             /\ state' = S1
                             /\ run' = [rest EXCEPT !.failed = @ + 1]
                             /\ ev' = RunEv("phaseB_failed", o)
                        [] OTHER ->
                             \E step \in WaitReconfirmSteps :
                                /\ state' = upsert_order_state(S1, o, "HOLD", step,
                                                [NoArgs EXCEPT !.err = <<"so qty updated">>])
                                /\ run' = [rest EXCEPT !.held = @ + 1]
                                /\ ev' = RunEv("phaseB_hold", o)

\* Lines 1689-1693.
PhaseBEnd ==
    /\ run.phase = "B"
    /\ run.todo = {}
    /\ run' = [run EXCEPT !.phase = "C", !.queue = PendingRelease(state)]
    /\ ev' = RunEv("phaseC", 0)
    /\ UNCHANGED <<state, runOrders, made, pc, cur, lastFail, snap, crashed, now>>

Qtys == 1..MaxQty

\* The release check of one order: the sales order of site B is reconfirmed
\* and its quantity equals the quantity of the job of site B.
detect_starpak_reconfirm_or_complete(S, o, so_qty, job_qty) ==
    IF so_qty = job_qty
    THEN [released |-> TRUE,
          S |-> upsert_order_state(S, o, "COMPLETE", "COMPLETE", NoArgs)]
    ELSE [released |-> FALSE, S |-> S]

\* Lines 1695-1725, one order of the pending list.
PhaseC ==
    /\ run.phase = "C"
    /\ run.queue # <<>>
    /\ UNCHANGED <<made, pc, cur, lastFail, snap, crashed, now>>
    /\ LET o == Head(run.queue)
           R1 == mark_run_order(runOrders, o, "IN_PROGRESS", "PHASE2C_CHECK")
       IN /\ run' = [run EXCEPT !.queue = Tail(@)]
          /\ \/ /\ runOrders' = mark_run_order(R1, o, "FAILED", "PHASE2C_ERROR")
                /\ ev' = RunEv("phaseC_error", o)
                /\ UNCHANGED state
             \/ \E so_qty, job_qty \in Qtys :
                   LET d == detect_starpak_reconfirm_or_complete(state, o, so_qty, job_qty)
                   IN /\ state' = d.S
                      /\ ev' = [RunEv("phaseC_check", o) EXCEPT
                                   !.fields = <<so_qty, job_qty>>, !.prev = state[o]]
                      /\ runOrders' =
                            IF d.released
                            THEN mark_run_order(R1, o, "COMPLETE", "PHASE2C_COMPLETE")
                            ELSE mark_run_order(R1, o, "HOLD", d.S[o].last_step)

\* Lines 1733-1771: the orders of this run's pipeline.
BuildPipeline ==
    /\ run.phase = "C"
    /\ run.queue = <<>>
    /\ \E queued \in Orderings(get_manual_queue_orders(state)), upstream \in SUBSET Orders :
          LET manual == Take(queued, ManualLimit)
              sorders == PipelineOrders(state, manual,
                             Take(SeqDesc(upstream), MAX_ORDERS_PER_RUN), run.held_sos)
          IN /\ run' = [run EXCEPT !.phase = "pipeline", !.queue = sorders,
                                   !.eligible = Len(sorders)]
             /\ ev' = [RunEv("pipeline", 0) EXCEPT !.fields =
                          <<manual, Take(SeqDesc(upstream), MAX_ORDERS_PER_RUN),
                            upstream>>]
    /\ UNCHANGED <<state, runOrders, made, pc, cur, lastFail, snap, crashed, now>>

\* Lines 1773-1776: the call for the next order of the list.
PipelineCall ==
    /\ run.phase = "pipeline"
    /\ run.queue # <<>>
    /\ pc = "idle"
    /\ process_one_order(Head(run.queue))

\* Lines 1773-1780: the outcome of the call reaches the loop (the counters
\* are read only after the loop, so `processed` is counted here).  A
\* process that died inside the call ends the run without close_run.
PipelineReturn ==
    /\ run.phase = "pipeline"
    /\ pc = "done"
    /\ pc' = "idle"
    /\ cur' = IdleCur
    /\ ev' = RunEv("returned", cur.order)
    /\ run' = IF cur.exit = "crash"
               THEN [run EXCEPT !.phase = "idle", !.outcome = "died", !.runs = @ + 1]
               ELSE [run EXCEPT !.queue = Tail(@),
                                !.processed = @ + 1,
                                !.held = IF cur.exit = "hold" THEN @ + 1 ELSE @,
                                !.failed = IF cur.exit = "exc" THEN @ + 1 ELSE @]
    /\ UNCHANGED <<state, runOrders, made, lastFail, snap, crashed, now>>

\* Lines 1798-1799: close_run(run_id, end_ts, eligible, processed, failed).
\* The column held_count of workflow_runs is written by no statement.
EndRun ==
    /\ run.phase = "pipeline"
    /\ run.queue = <<>>
    /\ pc = "idle"
    /\ run' = [run EXCEPT !.phase = "idle", !.outcome = "closed", !.runs = @ + 1,
                          !.closed = [eligible |-> run.eligible,
                                      processed |-> run.processed,
                                      failed |-> run.failed,
                                      held |-> None]]
    /\ ev' = RunEv("closed", 0)
    /\ UNCHANGED <<state, runOrders, made, pc, cur, lastFail, snap, crashed, now>>

----------------------------------------------------------------------------
(* The operator's actions of the admin pages *)

\* order_retry: an UPDATE of the order's row.
order_retry(o) ==
    /\ state[o].status # "ABSENT"
    /\ state' = [state EXCEPT ![o] = [@ EXCEPT !.status = "NEW", !.last_step = "ELIGIBLE",
                                               !.err = None, !.api = NoApi, !.sig = None,
                                               !.hold_since = None,
                                               !.reminder_ts = None,
                                               !.escalated_ts = None]]
    /\ lastFail' = [lastFail EXCEPT ![o] = None]
    /\ ev' = RunEv("retry", o)
    /\ UNCHANGED <<runOrders, made, pc, cur, run, snap, crashed, now>>

order_remove(o) ==
    /\ state' = upsert_order_state(state, o, "REMOVED", "REMOVED_BY_USER",
                                    [NoArgs EXCEPT !.err = <<"removed by user">>])
    /\ ev' = RunEv("remove", o)
    /\ UNCHANGED <<runOrders, made, pc, cur, lastFail, run, snap, crashed, now>>

order_run_now(o) ==
    /\ state' = upsert_order_state(state, o, "NEW", "ELIGIBLE", NoArgs)
    /\ ev' = RunEv("run_now", o)
    /\ UNCHANGED <<runOrders, made, pc, cur, lastFail, run, snap, crashed, now>>

----------------------------------------------------------------------------
(* The scheduler: one run after the other, the operator at any time        *)
(* between two steps of a run.                                             *)

Init == InitStore /\ run = IdleRun

Next ==
    \/ StartRun
    \/ \E o \in Orders : PhaseA(o)
    \/ PhaseAEnd
    \/ \E o \in Orders : PhaseB(o)
    \/ PhaseBEnd
    \/ PhaseC
    \/ BuildPipeline
    \/ PipelineCall
    \/ Step
    \/ Crash
    \/ PipelineReturn
    \/ EndRun
    \/ \E o \in Orders : order_retry(o)
    \/ \E o \in Orders : order_remove(o)
    \/ \E o \in Orders : order_run_now(o)

Spec == Init /\ [][Next]_vars

\* The scheduler alone: the operator does nothing.
NextScheduled ==
    \/ StartRun
    \/ \E o \in Orders : PhaseA(o)
    \/ PhaseAEnd
    \/ \E o \in Orders : PhaseB(o)
    \/ PhaseBEnd
    \/ PhaseC
    \/ BuildPipeline
    \/ PipelineCall
    \/ Step
    \/ Crash
    \/ PipelineReturn
    \/ EndRun

SpecScheduled == Init /\ [][NextScheduled]_vars

----------------------------------------------------------------------------
(* upsert_order_state on its own: any sequence of calls for one order, with *)
(* any status and any identifiers, the clock advancing between calls and    *)
(* the hold reminder marking aged holds.                                    *)

Statuses == {"NEW", "IN_PROGRESS", "HOLD", "FAILED", "COMPLETE", "REMOVED"}

\* A step tag that the program writes together with the status.
StepOf(status) ==
    CASE status = "NEW" -> "ELIGIBLE"
      [] status = "HOLD" -> "JOB_P4_HOLD"
      [] status = "COMPLETE" -> "COMPLETE"
      [] status = "REMOVED" -> "REMOVED_BY_USER"
      [] OTHER -> "JOB_P4"

\* The identifier arguments of a call: none, one of the five, or all of them.
AllIds(o) ==
    [job_p4 |-> <<o, 1>>, po_p4 |-> <<o, 1, 1>>, so_p2 |-> <<o, 1, 1, 1>>,
     shipreq_p2 |-> <<o, 1, 1, 1, 1>>, job_p2 |-> <<o, 1, 1, 1, 2>>, err |-> None,
     api |-> NoApi]

UpsertArgs(o) ==
    {NoArgs, AllIds(o)}
        \cup {[f \in DOMAIN NoArgs |-> IF f = g THEN AllIds(o)[f] ELSE NoArgs[f]] :
                 g \in DOMAIN NoArgs \ {"err", "api"}}

InitUpsert == InitStore /\ \E o \in Orders : run = [phase |-> "upsert", order |-> o]

UpsertCall ==
    /\ \E status \in Statuses, a \in UpsertArgs(run.order) :
          /\ state' = upsert_order_state(state, run.order, status, StepOf(status), a)
          /\ ev' = [RunEv("upsert", run.order) EXCEPT
                       !.at = status, !.fields = a, !.prev = state[run.order]]
    /\ UNCHANGED <<runOrders, made, pc, cur, lastFail, run, snap, crashed, now>>

Tick ==
    /\ now < MaxNow
    /\ now' = now + 1
    /\ ev' = RunEv("tick", 0)
    /\ UNCHANGED <<state, runOrders, made, pc, cur, lastFail, run, snap, crashed>>

\* hold_reminder.py: a reminder or an escalation for an order on HOLD whose
\* hold_since_ts is set (the age thresholds are left open).
HoldReminder ==
    /\ state[run.order].status = "HOLD"
    /\ state[run.order].hold_since # None
    /\ \/ state' = [state EXCEPT ![run.order].reminder_ts = <<now>>]
       \/ /\ state[run.order].escalated_ts = None
          /\ state' = [state EXCEPT ![run.order].escalated_ts = <<now>>]
    /\ ev' = RunEv("reminder", run.order)
    /\ UNCHANGED <<runOrders, made, pc, cur, lastFail, run, snap, crashed, now>>

NextUpsert == UpsertCall \/ Tick \/ HoldReminder

SpecUpsert == InitUpsert /\ [][NextUpsert]_vars

\* The pipeline executor with the clock: time passes between two calls of
\* process_one_order.
NextAging ==
    \/ NextExec
    \/ (pc = "idle" /\ Tick)

SpecAging == InitExec /\ [][NextAging]_vars

----------------------------------------------------------------------------
(* The item-code naming transform on its own.  An item code is a sequence  *)
(* of pieces: the two prefixes as they are written by the program, the     *)
(* first prefix in lower case, white space, and any other text.            *)

Pieces == {"16P4-", "16p4-", "1600-", " ", "X"}

RECURSIVE SeqsUpTo(_)
SeqsUpTo(n) ==
    IF n = 0 THEN {<<>>}
    ELSE LET shorter == SeqsUpTo(n - 1)
         IN shorter \cup {Append(s, p) : s \in {t \in shorter : Len(t) = n - 1}, p \in Pieces}

ItemCodes == SeqsUpTo(MaxCode)

InitItem == InitStore /\ \E c \in ItemCodes : run = [phase |-> "item", code |-> c, out |-> c]

PrefixPt ==
    /\ run.phase = "item"
    /\ run' = [run EXCEPT !.phase = "pt", !.out = _pt_16p4_itemcode(run.code)]
    /\ UNCHANGED <<state, runOrders, made, pc, cur, ev, lastFail, snap, crashed, now>>

PrefixSp ==
    /\ run.phase = "item"
    /\ run' = [run EXCEPT !.phase = "sp", !.out = _sp_1600_itemcode(run.code)]
    /\ UNCHANGED <<state, runOrders, made, pc, cur, ev, lastFail, snap, crashed, now>>

Core ==
    /\ run.phase \in {"pt", "sp"}
    /\ run' = [run EXCEPT !.phase = "core_" \o run.phase, !.out = _core_itemcode(run.out)]
    /\ UNCHANGED <<state, runOrders, made, pc, cur, ev, lastFail, snap, crashed, now>>

NextItem == PrefixPt \/ PrefixSp \/ Core

SpecItem == InitItem /\ [][NextItem]_vars

----------------------------------------------------------------------------
(* Phase A of run_once on its own: a run starts on a store that earlier     *)
(* runs have filled.  Each order has no row, or a row that process_one_order *)
(* or the reconciliation phases leave behind for the monitor: COMPLETE, or  *)
(* HOLD at one of the reconciliation steps; its artifacts exist and its     *)
(* upstream lines have a snapshot.                                          *)

StoredRow(o, status, step) ==
    [NoRow EXCEPT !.status = status, !.last_step = step,
                  !.job_p4 = AllIds(o).job_p4, !.po_p4 = AllIds(o).po_p4,
                  !.so_p2 = AllIds(o).so_p2, !.shipreq_p2 = AllIds(o).shipreq_p2,
                  !.job_p2 = AllIds(o).job_p2,
                  !.hold_since = IF status = "HOLD" THEN <<0>> ELSE None]

MonitoredRows(o) ==
    {NoRow, StoredRow(o, "COMPLETE", "COMPLETE")}
        \cup {StoredRow(o, "HOLD", step) :
                 step \in WaitReconfirmSteps \cup {"SO4_QTY_CHANGED_WAIT_RECONFIRM"}}

ArtifactOf(k, o) ==
    CASE k = "JOB_P4" -> AllIds(o).job_p4
      [] k = "PO_P4" -> AllIds(o).po_p4
      [] k = "SO_P2" -> AllIds(o).so_p2
      [] k = "SHIPREQ_P2" -> AllIds(o).shipreq_p2
      [] OTHER -> AllIds(o).job_p2

InitPhaseA ==
    /\ state \in {S \in [Orders -> UNION {MonitoredRows(o) : o \in Orders}] :
                     \A o \in Orders : S[o] \in MonitoredRows(o)}
    /\ runOrders = [o \in Orders |-> NoRec]
    /\ made = [k \in Kinds |-> {ArtifactOf(k, o) : o \in {x \in Orders : state[x].status # "ABSENT"}}]
    /\ pc = "idle"
    /\ cur = IdleCur
    /\ ev = RunEv("start", 0)
    /\ lastFail = [o \in Orders |-> None]
    /\ snap = {o \in Orders : state[o].status # "ABSENT"}
    /\ crashed = {}
    /\ now = 0
    /\ run = [IdleRun EXCEPT !.phase = "A", !.todo = get_orders_to_monitor(state)]

NextPhaseA ==
    \/ \E o \in Orders : PhaseA(o)
    \/ PhaseAEnd

SpecPhaseA == InitPhaseA /\ [][NextPhaseA]_vars

----------------------------------------------------------------------------
(* Properties of the pipeline executor (SpecExec) *)

Parent(k, c) ==
    CASE k = "JOB_P4" -> <<c.order>>
      [] k = "PO_P4" -> c.job_p4
      [] k = "SO_P2" -> c.po
      [] OTHER -> c.so

Carried(k, c) ==
    CASE k = "JOB_P4" -> c.job_p4
      [] k = "PO_P4" -> c.po
      [] k = "SO_P2" -> c.so
      [] k = "SHIPREQ_P2" -> c.shipreq
      [] OTHER -> c.job_p2

Stored(k, row) ==
    CASE k = "JOB_P4" -> row.job_p4
      [] k = "PO_P4" -> row.po_p4
      [] k = "SO_P2" -> row.so_p2
      [] k = "SHIPREQ_P2" -> row.shipreq_p2
      [] OTHER -> row.job_p2

OfOrder(k, o) == {id \in made[k] : id[1] = o}

\* C1: a call of process_one_order for an order whose row is COMPLETE makes
\* no remote write, leaves the row as it is, records SKIPPED for the order
\* and returns at once -- for every such call, however often it is repeated.
C1_CompleteOrderIsSkipped ==
    [][\A o \in Orders :
         (pc = "idle" /\ pc' # "idle" /\ cur'.order = o /\ state[o].status = "COMPLETE")
            => /\ state' = state
               /\ made' = made
               /\ cur'.writes = {}
               /\ runOrders'[o] = [status |-> "SKIPPED", last_step |-> "ALREADY_COMPLETE"]
               /\ pc' = "done"
               /\ cur'.exit = "return"]_vars

C1_Witness ==
    /\ pc = "done"
    /\ ev.kind = "skip"
    /\ state[cur.order].status = "COMPLETE"
    /\ runOrders[cur.order].status = "SKIPPED"
    /\ made["JOB_P2"] # {}

C3_AtMostOneArtifact ==
    \A o \in Orders : \A k \in Kinds : Cardinality(OfOrder(k, o)) <= 1

C3_Witness ==
    \E o \in crashed :
        /\ state[o].status = "COMPLETE"
        /\ lastFail[o] # None
        /\ \A k \in Kinds : Cardinality(OfOrder(k, o)) = 1

\* C4 as stated: after a rejection of any of the five creates whose message
\* contains "on hold", the order is on HOLD with that message as its error.
C4_OnHoldRejectionHolds ==
    (ev.cause = "rejection" /\ Contains(ev.reason, "on hold"))
        => /\ state[ev.order].status = "HOLD"
           /\ state[ev.order].err = ev.reason

\* C5 as stated: an exception that is no hold of a gate or of the rejection
\* logic leaves the order FAILED at the step in progress, records FAILED in
\* run_orders and reaches the caller.
C5_OtherExceptionFails ==
    ev.cause = "exception"
        => /\ state[ev.order].status = "FAILED"
           /\ state[ev.order].last_step = ev.at
           /\ runOrders[ev.order].status = "FAILED"
           /\ cur.exit = "exc"

C7_NotifyOnChangeOnly ==
    ev.kind = "fail" => (ev.mailed <=> ev.fields # ev.prev)

C7_Witness ==
    /\ ev.kind = "fail"
    /\ ev.fields = ev.prev
    /\ ~ev.mailed

Rank(k) ==
    CASE k = "JOB_P4" -> 1
      [] k = "PO_P4" -> 2
      [] k = "SO_P2" -> 3
      [] k = "SHIPREQ_P2" -> 4
      [] OTHER -> 5

C25_AuthorizeOnlyCreated ==
    [][(pc = "SO_P2_auth" /\ "authorize" \in cur'.writes \ cur.writes) => ~cur.found]_vars

\* C26: the status poll reads at most ten times, and reads again only while
\* no read has returned a status; it ends at the first status or after the
\* tenth read.  When it ends without a status the order is not put on HOLD,
\* not FAILED and not COMPLETE: the purchase order is not confirmed, the row
\* is written IN_PROGRESS at SO_P2 and the call goes on with the
\* shipping-request step.
C26_PollBoundedUnknownProceeds ==
    [][/\ cur'.polls < PollReads
       /\ (pc = "SO_P2_poll" /\ pc' = pc)
            => /\ cur'.polls = cur.polls + 1
               /\ cur'.so_status = None
       /\ (pc = "SO_P2_poll" /\ pc' # pc)
            => (cur'.so_status # None \/ cur.polls + 1 = PollReads)
       /\ (pc = "SO_P2_poll" /\ pc' # pc /\ cur'.so_status = None)
            => /\ pc' = "SHIPREQ_P2"
               /\ cur'.exit = ""
               /\ state'[cur.order].status = "IN_PROGRESS"
               /\ state'[cur.order].last_step = "SO_P2"
               /\ state'[cur.order].so_p2 = cur.so
               /\ "po_confirm" \in cur'.writes <=> "po_confirm" \in cur.writes
               /\ made' = made]_vars

\* Ten reads without a status, then the shipping-request step.
C26_Witness ==
    /\ pc = "SHIPREQ_P2"
    /\ cur.so_status = None
    /\ "authorize" \in cur.writes
    /\ "po_confirm" \notin cur.writes
    /\ state[cur.order].last_step = "SO_P2"

C28_HoldIffHoldPhrase ==
    [][(pc = "JOB_P2" /\ pc' = "done" /\ ev'.cause = "rejection")
          => LET r == ev'.reason
                 row == state'[cur.order]
             IN IF \/ Contains(r, "on hold")
                   \/ Contains(r, "job code missing")
                   \/ Contains(r, "estimate cannot be determined")
                THEN row.status = "HOLD" /\ row.last_step = "JOB_P2_SO_ON_HOLD"
                ELSE row.status = "FAILED" /\ row.last_step = "JOB_P2"]_vars

\* C29 as stated: a row with status COMPLETE and last_step COMPLETE holds
\* all five identifiers: job of site A, purchase order, sales order of site
\* B, shipping request and job of site B.
C29_CompleteHasAllIdentifiers ==
    \A o \in Orders :
        (state[o].status = "COMPLETE" /\ state[o].last_step = "COMPLETE")
            => \A k \in Kinds : Stored(k, state[o]) # None

\* C34 as stated: when the create of the sales order of site B is rejected
\* with the typed API error, the FAILED row written by the failure path holds
\* the entity name, the status code and the messages of the error in its
\* last-API-error columns, and the entity name and the status code are parts
\* of the failure signature.
C34_ApiDetailsStored ==
    (ev.kind = "fail" /\ ev.cause = "rejection" /\ ev.at = "SO_P2")
        => /\ state[ev.order].status = "FAILED"
           /\ state[ev.order].api[1] = <<"XLinkAPISOrder">>
           /\ state[ev.order].api[2] = <<"0">>
           /\ state[ev.order].api[3] = ev.reason
           /\ ev.fields[3] = <<"XLinkAPISOrder">>
           /\ ev.fields[4] = <<"0">>

\* C36 as stated: when a call of process_one_order finds the order on HOLD
\* at one of the holds of the first item gate and ends with the order on
\* HOLD at the same step, hold_since is the value the call found.
C36_HoldSinceKeptAcrossRuns ==
    [][(pc = "ITEM_GATE_PRE_JOB" /\ ev.prev # None /\ ev.prev.status = "HOLD"
          /\ state'[cur.order].status = "HOLD"
          /\ state'[cur.order].last_step = ev.prev.last_step)
          => state'[cur.order].hold_since = ev.prev.hold_since]_vars

----------------------------------------------------------------------------
(* Properties of the scheduled run (Spec) *)

WaitingForReconfirm(row) ==
    row.status = "HOLD" /\ row.last_step \in WaitReconfirmSteps

PhaseCStep == run.phase = "C" /\ run.queue # <<>> /\ run'.queue = Tail(run.queue)

C9_ExceptionNeverStopsRun ==
    [][(run.phase \in {"A", "B", "C", "pipeline"} /\ run'.phase = "idle") =>
          run'.outcome \in {"closed", "died"}]_vars

\* C10: the row of an order whose status is FAILED is changed by no scheduled
\* run: it changes only by an action of the operator on that order.
C10_FailedUntilRetry ==
    [][\A o \in Orders :
          (state[o].status = "FAILED" /\ state'[o] # state[o]) =>
              (ev'.kind \in {"retry", "remove", "run_now"} /\ ev'.order = o)]_vars

OperatorKinds == {"retry", "remove", "run_now"}

\* The orders a run has on one of its work lists or in the running call.
Enlisted == run.todo \cup Members(run.queue) \cup {cur.order}

\* C11: an order that is REMOVED and on no work list of the run (as is every
\* order when run_once starts) is put on no work list by any step of the
\* run, in the reconciliation phases as in the pipeline, also when the
\* upstream list names it; its row stays as it is and no remote artifact is
\* written for it.
C11_RemovedIsLeftAlone ==
    [][\A o \in Orders :
         (state[o].status = "REMOVED" /\ o \notin Enlisted /\ ev'.kind \notin OperatorKinds)
            => /\ state'[o] = state[o]
               /\ \A k \in Kinds : OfOrder(k, o)' = OfOrder(k, o)
               /\ o \notin Enlisted']_vars

C11_Witness ==
    /\ ev.kind = "pipeline"
    /\ \E o \in Orders : /\ o \in Members(ev.fields[2])
                         /\ state[o].status = "REMOVED"
                         /\ OfOrder("JOB_P4", o) # {}
                         /\ o \notin Members(run.queue)

C13_RunRecordClosed ==
    (run.phase = "idle" /\ run.outcome \in {"closed", "raised"}) => run.closed # None

\* C14: the run record of a closed run stores the number of orders held in
\* that run, equal to the holds run_once counted.
C14_HeldCountStored ==
    (run.phase = "idle" /\ run.outcome = "closed") => run.closed.held = <<run.held>>

\* C17: an order on HOLD at a gate of the pipeline that satisfies the
\* upstream eligibility query is processed by the run, however many other
\* orders satisfy the query -- here even in a run that has nothing else to
\* do: no order is manually queued and every other order of the query is
\* COMPLETE or REMOVED.  (Such a run repeats unchanged as long as the other
\* orders stay in the query, so an order it leaves out is never resumed.)
C17_HeldEligibleOrderIsProcessed ==
    [][(run.phase = "C" /\ run'.phase = "pipeline") =>
          \A o \in ev'.fields[3] :
              (/\ state[o].status = "HOLD"
               /\ ~Phase2Step(state[o].last_step)
               /\ o \notin run.held_sos
               /\ get_manual_queue_orders(state) = {}
               /\ \A p \in ev'.fields[3] \ {o} : state[p].status \in {"COMPLETE", "REMOVED"})
                 => o \in Members(run'.queue)]_vars

\* C18: every order that is manually queued when the run builds its list
\* (status NEW, step ELIGIBLE) is on the list of orders the run processes,
\* ahead of every order that was not manually queued.
C18_ManualOrdersFirst ==
    [][(run.phase = "C" /\ run'.phase = "pipeline") =>
          LET q == run'.queue
              manual == get_manual_queue_orders(state)
          IN /\ manual \subseteq Members(q)
             /\ \A i, j \in DOMAIN q :
                   (q[i] \in manual /\ q[j] \notin manual) => i < j]_vars

\* C19: an order whose status is REMOVED keeps that status in every step
\* except the operator's retry of that order; in particular queueing it
\* with order_run_now leaves it REMOVED.
C19_RemovedUntilRetry ==
    [][\A o \in Orders :
         (state[o].status = "REMOVED" /\ state'[o].status # "REMOVED")
            => (ev'.kind = "retry" /\ ev'.order = o)]_vars

\* C30: Phase A leaves the status and the step of an order at one of the
\* three waiting-for-reconfirm steps as they are, and the handler of the
\* drift hold writes nothing to an order whose row it reads as COMPLETE.
C30_PhaseAKeepsProgressed ==
    [][/\ \A o \in Orders :
            (run.phase = "A" /\ state[o].last_step \in WaitReconfirmSteps
                /\ ev'.kind \notin OperatorKinds)
               => /\ state'[o].status = state[o].status
                  /\ state'[o].last_step = state[o].last_step
       /\ (run.phase = "A" /\ ev'.kind = "phaseA_hold" /\ ev'.prev.status = "COMPLETE")
            => /\ state'[ev'.order] = ev'.prev
               /\ runOrders' = runOrders]_vars

\* A drift hold of Phase A for an order that stays COMPLETE, while another
\* order waits at one of the three steps.
C30_Witness ==
    /\ ev.kind = "phaseA_hold"
    /\ ev.prev.status = "COMPLETE"
    /\ state[ev.order].status = "COMPLETE"
    /\ ev.order \in run.held_sos
    /\ \E o \in Orders : state[o].last_step \in WaitReconfirmSteps

C33_FilmMismatchFailsAndNotifiesOnce ==
    [][/\ (pc = "REQS_P4" /\ ev'.cause = "film")
            => LET o == cur.order
                   item == ev'.reason
                   expected == <<"16P4-">> \o _core_itemcode(BaseItemCode(o))
                   differs == /\ item # None
                              /\ startswith(strip(item), "16P4-")
                              /\ UpperSeq(strip(item)) # UpperSeq(expected)
                   new_sig == FilmSig(o, BaseItemCode(o), item)
               IN differs
                    => /\ state'[o].status = "FAILED"
                       /\ runOrders'[o].status = "FAILED"
                       /\ pc' = "done"
                       /\ cur'.exit = "exc"
                       /\ made' = made
                       /\ cur'.writes \cap {"PO_P4", "SO_P2"} = {}
                       /\ cur'.film = <<"sent">>
                            => (state[o].film_sig # new_sig /\ state'[o].film_sig = new_sig)
                       /\ cur'.film = <<"suppressed">> <=> state[o].film_sig = new_sig
                       /\ cur'.film # <<"sent">> => state'[o].film_sig = state[o].film_sig
       /\ \A o \in Orders :
            (state'[o].film_sig # state[o].film_sig /\ state'[o].status # "ABSENT")
               => (pc = "REQS_P4" /\ cur.order = o /\ cur'.film = <<"sent">>)
       /\ ev'.kind = "retry" => state'[ev'.order].sig = None]_vars

\* After a retry the same mismatch fails the order again: the failure
\* notification is sent again, the mismatch email is not.
C33_Witness ==
    /\ pc = "done"
    /\ ev.kind = "fail"
    /\ ev.cause = "film"
    /\ cur.film = <<"suppressed">>
    /\ ev.mailed
    /\ state[cur.order].film_sig # None
    /\ state[cur.order].sig # None

\* C35 as stated, for runs without any action of the operator: a call of
\* process_one_order for an order whose row is COMPLETE, or whose COMPLETE
\* row was archived, issues no remote write -- no create, no forced
\* authorize, no confirm of the purchase order.
C35_CompleteOrderGetsNoWrites ==
    [][/\ (pc = "idle" /\ pc' # "idle" /\ state[cur'.order].status = "COMPLETE")
            => (pc' = "done" /\ cur'.writes = {} /\ made' = made)
       /\ (pc \notin {"idle", "done"} /\ cur.archived)
            => /\ made' = made
               /\ cur'.writes \cap (Kinds \cup {"authorize", "po_confirm"})
                     = cur.writes \cap (Kinds \cup {"authorize", "po_confirm"})]_vars

\* C37: in the record of a closed run the failures do not exceed the
\* processed orders, the processed orders do not exceed the eligible ones,
\* and the processed count is the number of calls of process_one_order of
\* that run (every order of the pipeline list, each called once).
C37_ClosedRunCounters ==
    (run.phase = "idle" /\ run.outcome = "closed") =>
        /\ run.closed.failed <= run.closed.processed
        /\ run.closed.processed <= run.closed.eligible
        /\ run.closed.processed = run.eligible

\* C38: the item gate issues an item-create call only for a derived item
\* that does not exist: when one of the two derived items exists and the
\* other is missing, the items posted are the missing ones only, so the
\* existing item and its approval status are not written.
C38_OnlyMissingItemCreated ==
    (/\ ev.kind = "hold" /\ ev.cause = "gate"
     /\ ev.at \in {"ITEM_GATE_PRE_JOB", "ITEM_GATE"}
     /\ ev.reason # None /\ ev.fields # None)
        => \A i \in 1..Len(ev.fields) :
              /\ ev.fields[i] = "pt" => ev.reason[2] = "pt missing"
              /\ ev.fields[i] = "sp" => ev.reason[3] = "sp missing"

\* C39: an order the operator marks REMOVED while a run is in progress,
\* after the run's filter of removed orders, stays REMOVED through the
\* remaining steps of the run, and process_one_order issues no further
\* remote create for it: neither the call for that order nor any later
\* step of a call under way writes its row or creates an artifact.
C39_RemovedDuringRunStays ==
    [][/\ (run.phase = "pipeline" /\ pc = "idle" /\ pc' # "idle"
              /\ state[cur'.order].status = "REMOVED")
            => (state'[cur'.order].status = "REMOVED" /\ made' = made)
       /\ (run.phase = "pipeline" /\ pc \notin {"idle", "done"}
              /\ <<pc, cur>>' # <<pc, cur>>
              /\ state[cur.order].status = "REMOVED")
            => (state'[cur.order].status = "REMOVED" /\ made' = made)]_vars

\* C40: the stored failure signature of an order changes only when a
\* failure notification is sent for it (it becomes the signature of that
\* failure) or when the operator retries the order (it is cleared); the
\* status writes of the pipeline, of the monitor phases and of manual
\* queueing leave it as it is, and a failure of an order whose signature
\* is cleared is notified.
C40_FailSigChangesOnlyBySendOrRetry ==
    [][/\ \A o \in Orders :
            (state'[o].sig # state[o].sig /\ state'[o].status # "ABSENT")
               => \/ /\ ev'.kind = "fail" /\ ev'.order = o /\ ev'.mailed
                     /\ state'[o].sig = FailSig(<<ev'.fields[1]>>, ev'.fields[2],
                                             ev'.fields[3], ev'.fields[4], ev'.fields[5])
                  \/ /\ ev'.kind = "retry" /\ ev'.order = o
                     /\ state'[o].sig = None
       /\ (ev'.kind = "fail" /\ ev' # ev /\ state[ev'.order].sig = None) => ev'.mailed
       /\ (ev'.kind \in {"remove", "run_now"} /\ ev' # ev)
             => state'[ev'.order].sig = state[ev'.order].sig]_vars

\* The order failed on a film mismatch that was notified before, was
\* retried, and fails on the same mismatch again: the failure notification
\* is sent once more and its signature is stored again.
C40_Witness ==
    /\ pc = "done"
    /\ ev.kind = "fail"
    /\ ev.mailed
    /\ cur.film = <<"suppressed">>
    /\ state[ev.order].sig = FailSig(<<ev.fields[1]>>, ev.fields[2],
                                     ev.fields[3], ev.fields[4], ev.fields[5])

----------------------------------------------------------------------------
(* Properties of upsert_order_state (SpecUpsert) *)

C16_IdentifiersNeverCleared ==
    [][\A o \in Orders, k \in Kinds :
          (ev'.kind = "upsert" /\ Stored(k, state[o]) # None) => Stored(k, state'[o]) # None]_vars

C16_Witness ==
    /\ ev.kind = "upsert"
    /\ ev.at = "FAILED"
    /\ ev.prev.so_p2 # None
    /\ ev.fields.so_p2 = None
    /\ state[ev.order].so_p2 = ev.prev.so_p2

----------------------------------------------------------------------------
(* Properties of the item-code transform (SpecItem) *)

\* C20: the prefix of either kind, taken off again by _core_itemcode, gives
\* back the item code it was put on, for every item code.
C20_PrefixIsReversible ==
    (run.phase \in {"core_pt", "core_sp"}) => run.out = run.code

====
